---- MODULE Spec2Model ----
(***************************************************************************)
(* Traffic light of ProjetoFinal.c (Raspberry Pi Pico): the phase machine  *)
(* controlar_semaforo, its countdown loops and the main loop, modelled one *)
(* C statement per step.  The program text is kept as data: every          *)
(* statement of the model carries the source line it was read from.        *)
(***************************************************************************)
EXTENDS Integers, Sequences, FiniteSets, TLC

\* ---------------------------------------------------------------- bounds
MaxCalls == 6      \* completed controlar_semaforo calls a counted run follows
MaxD == 9          \* largest countdown start value tried in CountdownSpec

\* ------------------------------------------------------------------ pins
LED_R == 13
LED_G == 11
LED_B == 12
BUZZER == 21
Pins == {LED_R, LED_G, LED_B, BUZZER}

\* ------------------------------------------------------- program as data
S(line, op, a, b) == [line |-> line, op |-> op, a |-> a, b |-> b]

\* variant of case0_outputs: line 86 (disable_pwm) left out
case0_outputs_keep_buzzer ==
  << S(83, "gpio_put", LED_R, 0),
     S(84, "gpio_put", LED_G, 0),
     S(85, "gpio_put", LED_B, 0),
     S(89, "gpio_put", LED_R, 1) >>

case0_outputs ==
  << S(83, "gpio_put", LED_R, 0),
     S(84, "gpio_put", LED_G, 0),
     S(85, "gpio_put", LED_B, 0),
     S(86, "disable_pwm", BUZZER, 0),
     S(89, "gpio_put", LED_R, 1) >>

case0_display ==
  << S(92, "ssd1306_fill", 0, 0),
     S(93, "ssd1306_draw_string", "Proibido a", <<5, 20>>),
     S(94, "ssd1306_draw_string", "passagem", <<5, 40>>),
     S(95, "ssd1306_send_data", 0, 0) >>

\* for(int i = 3; i > 0; i--){ print_num(i); sleep_ms(1000); }
\* for_test carries the offset to the statement after the loop, for_dec the
\* offset back to the test.
case0_countdown ==
  << S(98, "for_init", 3, 0),
     S(98, "for_test", 4, 0),
     S(99, "print_num", 0, 0),
     S(100, "sleep_ms", 1000, 0),
     S(98, "for_dec", -3, 0) >>

\* variant of case0_advance: line 105 leaves estado at 0
case0_advance_stuck ==
  << S(102, "clear_leds", 0, 0),
     S(105, "assign_estado", 0, 0),
     S(106, "return", 1, 0) >>

case0_advance ==
  << S(102, "clear_leds", 0, 0),
     S(105, "assign_estado", 1, 0),
     S(106, "return", 1, 0) >>

case0 == case0_outputs \o case0_display \o case0_countdown \o case0_advance

\* variant of case1_outputs: line 112 drives the blue channel high
case1_outputs_blue ==
  << S(110, "gpio_put", LED_R, 1),
     S(111, "gpio_put", LED_G, 1),
     S(112, "gpio_put", LED_B, 1) >>

case1_outputs ==
  << S(110, "gpio_put", LED_R, 1),
     S(111, "gpio_put", LED_G, 1),
     S(112, "gpio_put", LED_B, 0) >>

\* variant of case1_display: the flush of line 117 comes before the draw
case1_display_flush_first ==
  << S(115, "ssd1306_fill", 0, 0),
     S(117, "ssd1306_send_data", 0, 0),
     S(116, "ssd1306_draw_string", "Atencao!", <<5, 20>>) >>

case1_display ==
  << S(115, "ssd1306_fill", 0, 0),
     S(116, "ssd1306_draw_string", "Atencao!", <<5, 20>>),
     S(117, "ssd1306_send_data", 0, 0) >>

case1_countdown ==
  << S(120, "for_init", 3, 0),
     S(120, "for_test", 4, 0),
     S(121, "print_num", 0, 0),
     S(122, "sleep_ms", 1000, 0),
     S(120, "for_dec", -3, 0) >>

\* variant of case1_advance: line 124 (clear_leds) left out
case1_advance_no_clear ==
  << S(127, "assign_estado", 2, 0),
     S(128, "return", 1, 0) >>

\* variant of case1_advance: line 127 goes back to 0, skipping phase 2
case1_advance_skip ==
  << S(124, "clear_leds", 0, 0),
     S(127, "assign_estado", 0, 0),
     S(128, "return", 1, 0) >>

case1_advance ==
  << S(124, "clear_leds", 0, 0),
     S(127, "assign_estado", 2, 0),
     S(128, "return", 1, 0) >>

case1 == case1_outputs \o case1_display \o case1_countdown \o case1_advance

\* variant of case2_outputs: line 132 left out, red stays on
case2_outputs_stale_red ==
  << S(133, "gpio_put", LED_G, 1),
     S(134, "gpio_put", LED_B, 0),
     S(137, "set_pwm_pin", BUZZER, <<300, 300>>) >>

case2_outputs ==
  << S(132, "gpio_put", LED_R, 0),
     S(133, "gpio_put", LED_G, 1),
     S(134, "gpio_put", LED_B, 0),
     S(137, "set_pwm_pin", BUZZER, <<300, 300>>) >>

case2_display ==
  << S(140, "ssd1306_fill", 0, 0),
     S(141, "ssd1306_draw_string", "Permitido a", <<5, 20>>),
     S(142, "ssd1306_draw_string", "passagem", <<5, 40>>),
     S(143, "ssd1306_send_data", 0, 0) >>

\* variant of case2_countdown: the loop of line 146 starts from 5
case2_countdown_short ==
  << S(146, "for_init", 5, 0),
     S(146, "for_test", 4, 0),
     S(147, "print_num", 0, 0),
     S(148, "sleep_ms", 1000, 0),
     S(146, "for_dec", -3, 0) >>

case2_countdown ==
  << S(146, "for_init", 6, 0),
     S(146, "for_test", 4, 0),
     S(147, "print_num", 0, 0),
     S(148, "sleep_ms", 1000, 0),
     S(146, "for_dec", -3, 0) >>

\* variant of case2_advance: estado is written twice before the return
case2_advance_twice ==
  << S(150, "clear_leds", 0, 0),
     S(153, "assign_estado", 1, 0),
     S(153, "assign_estado", 0, 0),
     S(154, "return", 1, 0) >>

\* variant of case2_advance: the buzzer is switched off before the return
case2_advance_buzzer_off ==
  << S(150, "clear_leds", 0, 0),
     S(150, "disable_pwm", BUZZER, 0),
     S(153, "assign_estado", 0, 0),
     S(154, "return", 1, 0) >>

\* variant of case2_advance: line 153 stores 3
case2_advance_out_of_range ==
  << S(150, "clear_leds", 0, 0),
     S(153, "assign_estado", 3, 0),
     S(154, "return", 1, 0) >>

case2_advance ==
  << S(150, "clear_leds", 0, 0),
     S(153, "assign_estado", 0, 0),
     S(154, "return", 1, 0) >>

case2 == case2_outputs \o case2_display \o case2_countdown \o case2_advance

default_case == << S(157, "return", 0, 0) >>

controlar_semaforo ==
  << S(80, "switch", 0, 0) >> \o case0 \o case1 \o case2 \o default_case

\* index of the first statement of each switch label in controlar_semaforo
case0_at == 2
case1_at == case0_at + Len(case0)
case2_at == case1_at + Len(case1)
default_at == case2_at + Len(case2)

\* variant of main: the start-up call of line 207 left out
main_no_first_call ==
  << S(210, "while", 0, 0),
     S(211, "printf", 0, 0),
     S(212, "sleep_ms", 1000, 0),
     S(215, "call", 0, 0),
     S(216, "end_while", -3, 0) >>

\* main() after the one-time set-up of lines 198-204
main ==
  << S(207, "call", 0, 0),
     S(210, "while", 0, 0),
     S(211, "printf", 0, 0),
     S(212, "sleep_ms", 1000, 0),
     S(215, "call", 0, 0),
     S(216, "end_while", -3, 0) >>

Code(fn) == IF fn = "main" THEN main ELSE controlar_semaforo

\* --------------------------------------------------------------- state
VARIABLES
  pc,        \* <<function, statement index>> of the next statement
  stack,     \* statement index in main to return to
  estado,    \* volatile int estado
  i,         \* the loop variable of the running countdown
  gpio,      \* value driven on each output pin
  pwm,       \* the buzzer pin's function and PWM settings
  buf,       \* display frame buffer: strings drawn since the last fill
  screen,    \* what the OLED shows: the buffer at the last send_data
  matrix,    \* LED matrix: << >> when blank, <<n>> when it shows digit n
  counting,  \* history: TRUE when the run keeps the counters below
  calls,     \* history: completed controlar_semaforo calls
  renders,   \* history: print_num calls so far
  waits,     \* history: sleep_ms calls so far
  elapsed,   \* history: sum of all sleep_ms arguments so far (ms)
  stop_entries, \* history: value of elapsed at each switch with estado = 0
  history,   \* history: per completed call, phase run, phase left, return
  stdout,    \* history: estado values printed by the status line
  trace      \* history: statements executed since the last call began

vars == << pc, stack, estado, i, gpio, pwm, buf, screen, matrix, counting,
           calls, renders, waits, elapsed, stop_entries, history, stdout,
           trace >>

hw == << gpio, pwm, buf, screen, matrix >>
counters == << calls, renders, waits, elapsed, stop_entries, history, stdout >>

Cur == Code(pc[1])[pc[2]]
At(op) == pc[2] <= Len(Code(pc[1])) /\ Cur.op = op
InCall == pc[1] = "controlar_semaforo"
Goto(k) == pc' = << pc[1], k >>
Step == Goto(pc[2] + 1)
Ev(val) == [line |-> Cur.line, op |-> Cur.op, val |-> val]
Log(val) == trace' = Append(trace, Ev(val))
Cnt(x, n) == IF counting THEN x + n ELSE x

\* ------------------------------------------------------ peripheral calls
gpio_put(g, pin, v) == [g EXCEPT ![pin] = v]

\* lines 52-61: route the pin to its PWM slice, wrap 10000, level duty_c
set_pwm_pin(p, freq, duty_c) ==
  [func |-> "PWM", freq |-> freq, wrap |-> 10000, level |-> duty_c]

\* lines 67-70: back to plain GPIO; the slice keeps its configuration
disable_pwm(p) == [p EXCEPT !.func = "SIO"]

ssd1306_fill(b) == {}
ssd1306_draw_string(b, text, pos) == b \cup { << text, pos[1], pos[2] >> }
ssd1306_send_data(b) == b
print_num(n) == << n >>
clear_leds == << >>
\* variant of for_cond: i >= 0
for_cond_inclusive(n) == n >= 0
for_cond(n) == n > 0
for_step(n) == n - 1

\* the buzzer sounds when the pin is routed to a running PWM slice
BuzzerOn == pwm.func = "PWM" /\ pwm.level > 0

\* ----------------------------------------------------------------- Init
\* State when main reaches line 207: gpio_init leaves the four pins low,
\* configurar_hardware has cleared and flushed the display.  The LED matrix
\* is never written before the first print_num, so it shows whatever the
\* strip held at reset.
MatrixAtReset == { << >> } \cup { << n >> : n \in 0..9 }

InitProgram ==
  /\ pc = << "main", 1 >>
  /\ stack = 0
  /\ estado = 0
  /\ i = 0
  /\ gpio = [p \in Pins |-> 0]
  /\ pwm = [func |-> "SIO", freq |-> 0, wrap |-> 0, level |-> 0]
  /\ buf = {}
  /\ screen = {}
  /\ matrix \in MatrixAtReset
  /\ calls = 0 /\ renders = 0 /\ waits = 0 /\ elapsed = 0
  /\ stop_entries = << >> /\ history = << >> /\ stdout = << >>
  /\ trace = << >>

Init == InitProgram /\ counting = TRUE

\* -------------------------------------------------------------- actions
Call ==
  /\ At("call") /\ ~InCall
  /\ counting => calls < MaxCalls
  /\ pc' = << "controlar_semaforo", 1 >>
  /\ stack' = pc[2] + 1
  /\ trace' = << Ev(0) >>
  /\ UNCHANGED << estado, i, hw, counting, counters >>

Switch ==
  /\ At("switch")
  /\ Goto(CASE estado = 0 -> case0_at
            [] estado = 1 -> case1_at
            [] estado = 2 -> case2_at
            [] OTHER -> default_at)
  /\ stop_entries' = IF counting /\ estado = 0
                     THEN Append(stop_entries, elapsed) ELSE stop_entries
  /\ Log(estado)
  /\ UNCHANGED << stack, estado, i, hw, counting, calls, renders, waits,
                  elapsed, history, stdout >>

GpioPut ==
  /\ At("gpio_put")
  /\ gpio' = gpio_put(gpio, Cur.a, Cur.b)
  /\ Step /\ Log(Cur.b)
  /\ UNCHANGED << stack, estado, i, pwm, buf, screen, matrix, counting,
                  counters >>

DisablePwm ==
  /\ At("disable_pwm")
  /\ pwm' = disable_pwm(pwm)
  /\ gpio' = gpio_put(gpio, Cur.a, 0)
  /\ Step /\ Log(0)
  /\ UNCHANGED << stack, estado, i, buf, screen, matrix, counting, counters >>

SetPwmPin ==
  /\ At("set_pwm_pin")
  /\ pwm' = set_pwm_pin(pwm, Cur.b[1], Cur.b[2])
  /\ Step /\ Log(Cur.b[1])
  /\ UNCHANGED << stack, estado, i, gpio, buf, screen, matrix, counting,
                  counters >>

Ssd1306Fill ==
  /\ At("ssd1306_fill")
  /\ buf' = ssd1306_fill(buf)
  /\ Step /\ Log(0)
  /\ UNCHANGED << stack, estado, i, gpio, pwm, screen, matrix, counting,
                  counters >>

Ssd1306DrawString ==
  /\ At("ssd1306_draw_string")
  /\ buf' = ssd1306_draw_string(buf, Cur.a, Cur.b)
  /\ Step /\ Log(Cur.b[2])
  /\ UNCHANGED << stack, estado, i, gpio, pwm, screen, matrix, counting,
                  counters >>

Ssd1306SendData ==
  /\ At("ssd1306_send_data")
  /\ screen' = ssd1306_send_data(buf)
  /\ Step /\ Log(0)
  /\ UNCHANGED << stack, estado, i, gpio, pwm, buf, matrix, counting,
                  counters >>

ForInit ==
  /\ At("for_init")
  /\ i' = Cur.a
  /\ Step /\ Log(Cur.a)
  /\ UNCHANGED << stack, estado, hw, counting, counters >>

ForTest ==
  /\ At("for_test")
  /\ IF for_cond(i) THEN Step ELSE Goto(pc[2] + Cur.a)
  /\ Log(i)
  /\ UNCHANGED << stack, estado, i, hw, counting, counters >>

PrintNum ==
  /\ At("print_num")
  /\ matrix' = print_num(i)
  /\ renders' = Cnt(renders, 1)
  /\ Step /\ Log(i)
  /\ UNCHANGED << stack, estado, i, gpio, pwm, buf, screen, counting, calls,
                  waits, elapsed, stop_entries, history, stdout >>

SleepMs ==
  /\ At("sleep_ms")
  /\ waits' = Cnt(waits, 1)
  /\ elapsed' = Cnt(elapsed, Cur.a)
  /\ Step /\ Log(Cur.a)
  /\ UNCHANGED << stack, estado, i, hw, counting, calls, renders,
                  stop_entries, history, stdout >>

ForDec ==
  /\ At("for_dec")
  /\ i' = for_step(i)
  /\ Goto(pc[2] + Cur.a)
  /\ Log(i)
  /\ UNCHANGED << stack, estado, hw, counting, counters >>

ClearLeds ==
  /\ At("clear_leds")
  /\ matrix' = clear_leds
  /\ Step /\ Log(0)
  /\ UNCHANGED << stack, estado, i, gpio, pwm, buf, screen, counting,
                  counters >>

AssignEstado ==
  /\ At("assign_estado")
  /\ estado' = Cur.a
  /\ Step /\ Log(Cur.a)
  /\ UNCHANGED << stack, i, hw, counting, counters >>

\* the phase a call ran is the value its switch read
PhaseRun == IF Len(trace) >= 2 THEN trace[2].val ELSE estado

Return ==
  /\ At("return") /\ InCall
  /\ pc' = << "main", stack >>
  /\ calls' = Cnt(calls, 1)
  /\ history' = IF counting
                THEN Append(history,
                       [ran |-> PhaseRun, after |-> estado, ret |-> Cur.a])
                ELSE history
  /\ Log(Cur.a)
  /\ UNCHANGED << stack, estado, i, hw, counting, renders, waits, elapsed,
                  stop_entries, stdout >>

While ==
  /\ At("while")
  /\ Step
  /\ UNCHANGED << stack, estado, i, hw, counting, counters, trace >>

Printf ==
  /\ At("printf")
  /\ stdout' = IF counting THEN Append(stdout, estado) ELSE stdout
  /\ Step /\ Log(estado)
  /\ UNCHANGED << stack, estado, i, hw, counting, calls, renders, waits,
                  elapsed, stop_entries, history >>

EndWhile ==
  /\ At("end_while")
  /\ Goto(pc[2] + Cur.a)
  /\ UNCHANGED << stack, estado, i, hw, counting, counters, trace >>

Next ==
  \/ Call \/ Switch \/ GpioPut \/ DisablePwm \/ SetPwmPin
  \/ Ssd1306Fill \/ Ssd1306DrawString \/ Ssd1306SendData
  \/ ForInit \/ ForTest \/ PrintNum \/ SleepMs \/ ForDec
  \/ ClearLeds \/ AssignEstado \/ Return
  \/ While \/ Printf \/ EndWhile

Spec == Init /\ [][Next]_vars


\* A run that keeps no counters: the program as it runs forever.  The single
\* control thread is always scheduled, hence the weak fairness.
LiveInit == InitProgram /\ counting = FALSE
LiveSpec == LiveInit /\ [][Next]_vars /\ WF_vars(Next)

\* The countdown loops of lines 98-101, 120-123 and 146-149 entered with an
\* arbitrary start value D instead of the literal: the state right after
\* "int i = D" in the call of phase c, the program running on from there.
case_at(c) == CASE c = 0 -> case0_at [] c = 1 -> case1_at [] OTHER -> case2_at
for_init_at(c) ==
  case_at(c) + (CASE c = 0 -> Len(case0_outputs) + Len(case0_display)
                  [] c = 1 -> Len(case1_outputs) + Len(case1_display)
                  [] OTHER -> Len(case2_outputs) + Len(case2_display))

CountdownInit ==
  \E c \in 0..2, D \in 0..MaxD :
    /\ pc = << "controlar_semaforo", for_init_at(c) + 1 >>
    /\ stack = 2
    /\ estado = c
    /\ i = D
    /\ gpio = [p \in Pins |-> 0]
    /\ pwm = [func |-> "SIO", freq |-> 0, wrap |-> 0, level |-> 0]
    /\ buf = {}
    /\ screen = {}
    /\ matrix \in MatrixAtReset
    /\ counting = TRUE
    /\ calls = 0 /\ renders = 0 /\ waits = 0 /\ elapsed = 0
    /\ stop_entries = << >> /\ history = << >> /\ stdout = << >>
    /\ trace = << [line |-> 207, op |-> "call", val |-> 0],
                  [line |-> 80, op |-> "switch", val |-> c],
                  [line |-> controlar_semaforo[for_init_at(c)].line,
                   op |-> "for_init", val |-> D] >>

CountdownSpec == CountdownInit /\ [][Next]_vars

\* ------------------------------------------------------------ vocabulary
STOP == 0
CAUTION == 1
GO == 2
Leds == << gpio[LED_R], gpio[LED_G], gpio[LED_B] >>
AllOff == Leds = << 0, 0, 0 >> /\ ~BuzzerOn
InCountdown ==
  InCall /\ Cur.op \in {"for_test", "print_num", "sleep_ms", "for_dec"}
Main == ~InCall

\* texts on the OLED, top line first
RECURSIVE ByRow(_)
ByRow(L) ==
  IF L = {} THEN << >>
  ELSE LET top == CHOOSE l \in L : \A m \in L : l[3] <= m[3]
       IN << top[1] >> \o ByRow(L \ {top})
Message == ByRow(screen)

\* the literal each phase's loop starts from
Duration(p) ==
  (CASE p = 0 -> case0_countdown [] p = 1 -> case1_countdown
     [] OTHER -> case2_countdown)[1].a

RECURSIVE SumDur(_)
SumDur(h) ==
  IF h = << >> THEN 0 ELSE Duration(Head(h).ran) + SumDur(Tail(h))

\* ================================================================ claims

\* C1: the controller starts in STOP and every completed controlar_semaforo
\* call moves estado one step along STOP -> CAUTION -> GO -> STOP: after k
\* completed calls estado is the k-th successor of STOP (k mod 3); inside a
\* call it keeps the value it entered with until the final assignment.
C1_PhaseLaw ==
  /\ estado = (calls + (IF InCall /\ At("return") THEN 1 ELSE 0)) % 3
  /\ \A k \in 1..Len(history) :
       /\ history[k].ran = (k - 1) % 3
       /\ history[k].after = (history[k].ran + 1) % 3
C1_Witness == Main /\ calls = 5 /\ estado = GO

\* C2: whenever the buzzer tone is enabled the current phase (estado) is GO,
\* in every reachable state, the states between two calls included.
C2_BuzzerOnlyInGo == BuzzerOn => estado = GO

\* C3: during the countdown of a phase (every render and every wait) the
\* outputs are exactly that phase's: STOP red only, buzzer off, "Proibido a"
\* / "passagem"; CAUTION red and green, buzzer off, "Atencao!" alone; GO
\* green only, buzzer on at 300 Hz, "Permitido a" / "passagem".
C3_OutputsMatchPhase ==
  InCountdown =>
    CASE estado = STOP ->
           /\ Leds = << 1, 0, 0 >> /\ ~BuzzerOn
           /\ Message = << "Proibido a", "passagem" >>
      [] estado = CAUTION ->
           /\ Leds = << 1, 1, 0 >> /\ ~BuzzerOn
           /\ Message = << "Atencao!" >>
      [] estado = GO ->
           /\ Leds = << 0, 1, 0 >> /\ BuzzerOn /\ pwm.freq = 300
           /\ Message = << "Permitido a", "passagem" >>
      [] OTHER -> FALSE
C3_Witness ==
  /\ InCountdown /\ At("sleep_ms") /\ estado = CAUTION /\ calls = 4
  /\ matrix = << 2 >>

\* The renders and waits of the countdown loop the call is in (or has just
\* left), as <<op, value>> pairs, and the value the loop started from.
LastForInit ==
  CHOOSE k \in 1..Len(trace) :
    /\ trace[k].op = "for_init"
    /\ \A m \in (k + 1)..Len(trace) : trace[m].op # "for_init"
LoopD == trace[LastForInit].val
IsTick(e) == e.op \in {"print_num", "sleep_ms"}
LoopTicks ==
  LET after == SubSeq(trace, LastForInit + 1, Len(trace))
      ticks == SelectSeq(after, IsTick)
  IN [j \in 1..Len(ticks) |-> << ticks[j].op, ticks[j].val >>]
Countdown(D) ==
  [j \in 1..(2 * D) |->
     IF j % 2 = 1 THEN << "print_num", D - (j \div 2) >>
     ELSE << "sleep_ms", 1000 >>]
LoopLeft == InCall /\ At("clear_leds")

\* C4: a countdown started from D makes exactly D render-then-wait steps:
\* digits D, D-1, ..., 1 in that order, each followed by one 1000 ms wait,
\* and leaves with 1 as the last digit shown; started from 0 it renders
\* nothing and waits for nothing.
C4_Countdown ==
  /\ InCountdown =>
       /\ Len(LoopTicks) <= 2 * LoopD
       /\ LoopTicks = SubSeq(Countdown(LoopD), 1, Len(LoopTicks))
  /\ LoopLeft =>
       /\ LoopTicks = Countdown(LoopD)
       /\ LoopD > 0 => matrix = << 1 >>
       /\ LoopD = 0 => LoopTicks = << >>
C4_Witness ==
  /\ LoopLeft /\ LoopD = 6 /\ estado = STOP
  /\ LoopTicks = << << "print_num", 6 >>, << "sleep_ms", 1000 >>,
                    << "print_num", 5 >>, << "sleep_ms", 1000 >>,
                    << "print_num", 4 >>, << "sleep_ms", 1000 >>,
                    << "print_num", 3 >>, << "sleep_ms", 1000 >>,
                    << "print_num", 2 >>, << "sleep_ms", 1000 >>,
                    << "print_num", 1 >>, << "sleep_ms", 1000 >> >>

\* C5: counting every wait at its nominal length, two consecutive entries
\* into STOP are exactly 3 + 3 + 6 = 12 seconds apart.
C5_CycleIs12s ==
  \A k \in 1..(Len(stop_entries) - 1) :
    stop_entries[k + 1] - stop_entries[k] = 12000

\* C6: six calls from a fresh start leave estado as CAUTION, GO, STOP,
\* CAUTION, GO, STOP in turn, with 24 digit renders in all; in general the
\* renders so far are the sum of the durations of the phases run so far.
C6_EndToEnd ==
  Main =>
    /\ Len(history) = calls
    /\ \A k \in 1..Len(history) :
         k <= 6 => history[k].after =
                     << CAUTION, GO, STOP, CAUTION, GO, STOP >>[k]
    /\ renders = SumDur(history)
    /\ calls = 6 => renders = 24
C6_Witness == Main /\ calls = 6 /\ renders = 24 /\ estado = STOP

\* C7: estado is always 0, 1 or 2, so the default branch of the switch is
\* never taken and no call returns false.
C7_ValidPhase ==
  /\ estado \in {STOP, CAUTION, GO}
  /\ ~(InCall /\ pc[2] = default_at)
  /\ \A k \in 1..Len(history) : history[k].ret = 1
C7_Witness == InCall /\ At("return") /\ calls = 2 /\ estado = STOP

\* C8: the program never stops: every call that starts returns, and each of
\* STOP, CAUTION and GO is entered again and again.
C8_RunsForever ==
  /\ [](InCall => <>Main)
  /\ \A p \in {STOP, CAUTION, GO} : []<>(InCall /\ At("switch") /\ estado = p)
C8_Witness ==
  /\ InCall /\ At("switch") /\ estado = STOP
  /\ Message = << "Permitido a", "passagem" >>

\* C9: the three indicator channels always show nothing or the pattern of
\* one phase (red, red+green, green), also between two channel writes; the
\* blue channel is never on.
C9_OnePattern ==
  /\ Leds \in { << 0, 0, 0 >>, << 1, 0, 0 >>, << 1, 1, 0 >>, << 0, 1, 0 >> }
  /\ gpio[LED_B] = 0
C9_Witness ==
  InCall /\ Cur.line = 111 /\ Leds = << 1, 0, 0 >> /\ estado = CAUTION

\* A statement that turns an output on, and the first such statement of the
\* call in progress.
TurnsOn(op, val) == (op = "gpio_put" /\ val = 1) \/ op = "set_pwm_pin"
FirstTurnOn ==
  /\ InCall /\ Cur.op \in {"gpio_put", "set_pwm_pin"}
  /\ TurnsOn(Cur.op, IF Cur.op = "gpio_put" THEN Cur.b ELSE 1)
  /\ \A k \in 1..Len(trace) : ~TurnsOn(trace[k].op, trace[k].val)

\* C10 as stated: in every phase the call has all outputs off (three
\* channels off, buzzer disabled) when it first turns an output on.
C10_AllOffFirst == FirstTurnOn => AllOff

\* C10 as amended: in the STOP phase the call has all outputs off when it
\* first turns an output on.
C10_StopAllOffFirst == (FirstTurnOn /\ estado = STOP) => AllOff
C10_Witness ==
  /\ FirstTurnOn /\ estado = STOP /\ calls = 3 /\ pwm.level = 300

\* Position of a statement kind in the order of effects of one call.
Stage(op) ==
  CASE op \in {"call", "switch"} -> 0
    [] op \in {"gpio_put", "disable_pwm"} -> 1
    [] op = "set_pwm_pin" -> 2
    [] op = "ssd1306_fill" -> 3
    [] op = "ssd1306_draw_string" -> 4
    [] op = "ssd1306_send_data" -> 5
    [] op \in {"for_init", "for_test", "print_num", "sleep_ms", "for_dec"} -> 6
    [] op = "clear_leds" -> 7
    [] op = "assign_estado" -> 8
    [] OTHER -> 9
Count(ops) == Cardinality({k \in 1..Len(trace) : trace[k].op \in ops})
CallDone == InCall /\ At("return") /\ pc[2] # default_at

\* C11: inside a call the effects come in this order and never go back:
\* indicator writes, buzzer enable (GO only), display clear, message lines,
\* one flush, the render-then-wait steps of the countdown, matrix clear, and
\* last the assignment to estado.
C11_EffectOrder ==
  InCall =>
    /\ \A k \in 1..(Len(trace) - 1) :
         Stage(trace[k].op) <= Stage(trace[k + 1].op)
    /\ CallDone =>
         /\ Count({"gpio_put"}) >= 3
         /\ Count({"set_pwm_pin"}) = (IF PhaseRun = GO THEN 1 ELSE 0)
         /\ Count({"ssd1306_fill"}) = 1
         /\ Count({"ssd1306_draw_string"}) >= 1
         /\ Count({"ssd1306_send_data"}) = 1
         /\ Count({"print_num"}) = Duration(PhaseRun)
         /\ Count({"sleep_ms"}) = Duration(PhaseRun)
         /\ Count({"clear_leds"}) = 1
         /\ Count({"assign_estado"}) = 1
         /\ trace[Len(trace)].op = "assign_estado"
C11_Witness ==
  /\ CallDone /\ PhaseRun = GO /\ calls = 5
  /\ Count({"print_num"}) = 6 /\ Count({"set_pwm_pin"}) = 1

\* C12: every wait of the program is a countdown wait, issued right after a
\* digit render: the matrix is never blank at a wait, and between calls the
\* number of waits equals the number of renders.
C12_WaitsOnlyInCountdown ==
  /\ At("sleep_ms") => (InCall /\ matrix # << >>)
  /\ At("call") => waits = renders

\* C13: estado changes only in the assignment that ends a call, and there
\* it does change; every other step leaves it alone, and a call makes that
\* assignment exactly once.
C13_OnlyAssignChanges ==
  /\ [][ /\ (estado' # estado) => (InCall /\ At("assign_estado"))
         /\ (InCall /\ At("assign_estado")) => (estado' # estado) ]_vars
  /\ [](InCall => Count({"assign_estado"}) <= 1)
  /\ [](CallDone => Count({"assign_estado"}) = 1)
C13_Witness ==
  /\ CallDone /\ PhaseRun = CAUTION /\ estado = GO /\ calls = 4
  /\ Count({"assign_estado"}) = 1

\* C14: the first call runs before any status line; after that there is
\* exactly one status line between two consecutive calls, and none while a
\* call (and so a countdown) is running.
C14_OneStatusPerPhase ==
  /\ InCall => Len(stdout) = calls
  /\ (Main /\ (At("sleep_ms") \/ At("call"))) => Len(stdout) = calls
  /\ (Main /\ (At("while") \/ At("printf") \/ At("end_while"))) =>
       Len(stdout) = calls - 1
  /\ Main => Count({"printf"}) <= 1
C14_Witness ==
  /\ InCountdown /\ estado = GO /\ matrix = << 4 >>
  /\ calls = 5 /\ Len(stdout) = 5

\* Statements from the start of a countdown loop to the clear after it.
CountdownRegion == InCountdown \/ (InCall /\ At("clear_leds"))

\* C15: once the program has rendered, a digit n on the matrix is between 1
\* and the duration of the current phase (3 for STOP and CAUTION, 6 for
\* GO); print_num is never given 0 or 7..9; and from the end of the first
\* call on the matrix is blank outside a countdown (loop and its clear).
C15_DigitRange ==
  /\ \A n \in 0..9 :
       (renders > 0 /\ matrix = << n >>) =>
          /\ n >= 1
          /\ n <= (IF estado \in {STOP, CAUTION} THEN 3 ELSE 6)
          /\ n <= Duration(estado)
  /\ (InCall /\ At("print_num")) => i \in 1..6
  /\ (calls >= 1 /\ ~CountdownRegion) => matrix = << >>
  /\ (renders > 0 /\ ~CountdownRegion) => matrix = << >>
C15_Witness ==
  /\ InCall /\ At("sleep_ms") /\ estado = GO /\ matrix = << 6 >>
  /\ calls = 2

\* The outputs are those of phase p.
ShowsPhase(p) ==
  CASE p = STOP ->
         /\ Leds = << 1, 0, 0 >> /\ ~BuzzerOn
         /\ Message = << "Proibido a", "passagem" >>
    [] p = CAUTION ->
         /\ Leds = << 1, 1, 0 >> /\ ~BuzzerOn
         /\ Message = << "Atencao!" >>
    [] p = GO ->
         /\ Leds = << 0, 1, 0 >> /\ BuzzerOn
         /\ Message = << "Permitido a", "passagem" >>
    [] OTHER -> FALSE
Pred(p) == (p + 2) % 3

====
